---- MODULE Spec2Model ----
(***************************************************************************)
(* jmd-linux (src/src/main.rs): main = find_java ; scan_memory.            *)
(*                                                                         *)
(* Text is modelled as sequences of one-character strings, bytes as        *)
(* naturals 0..255.  The kernel interfaces the program talks to (/proc     *)
(* listing, ptrace, waitpid, /proc/<pid>/maps, /proc/<pid>/mem) are the    *)
(* environment: their results are chosen from small catalogues.            *)
(***************************************************************************)
EXTENDS Integers, Sequences, FiniteSets, TLC

VARIABLES
    pc,               \* position in main / find_java / scan_memory
    err,              \* the error main returns, "none" while there is none
    processes,        \* what procfs::process::all_processes() yields
    pi,               \* find_java: index of the next process of the for loop
    java_candidates,  \* find_java: Vec of <<pid, rss_bytes>>
    pid,              \* the selected pid (0 before selection)
    shown_pid,        \* the pid line printed by main (0: nothing printed)
    mem,              \* bytes behind the /proc/<pid>/mem handle (<<>>: not open)
    maps,             \* lines behind the /proc/<pid>/maps reader
    ln,               \* scan_memory: index of the next line of the for loop
    found_s1,
    found_s2,
    verdict,          \* the verdict line printed: "none", "S1", "S2", "NoMatch"
    wstatus,          \* what the last waitpid returned ("none" before the first)
    prior,            \* the verdict an earlier scan of the same, unchanged target
                      \* printed ("none": this is the first scan)
    calls             \* system calls issued on the target, in order (a run of
                      \* repeated waitpid calls is recorded once)

vars == <<pc, err, processes, pi, java_candidates, pid, shown_pid, mem, maps,
          ln, found_s1, found_s2, verdict, wstatus, prior, calls>>

----------------------------------------------------------------------------
(* Bounds of the model *)

MaxProcs == 2     \* longest process list of the selector specification
MaxLines == 2     \* longest maps file
MaxOff   == 1     \* largest byte offset of a signature inside its slot

----------------------------------------------------------------------------
(* Byte and text helpers *)

\* slice.contains / str.contains / memmem search: exact contiguous occurrence
Occurs(sig, data) ==
    \E i \in 1..(Len(data) - Len(sig) + 1) :
        \A k \in 1..Len(sig) : data[i + k - 1] = sig[k]

\* str::contains(pattern)
str_contains(s, pat) == Occurs(pat, s)

Java == <<"j", "a", "v", "a">>

----------------------------------------------------------------------------
(* Target selector: find_java *)

PageSize == 4096

\* a failed per-field read of the process listing
NoStatus  == [ok |-> FALSE, name |-> <<>>]
NoCmdline == [ok |-> FALSE, args |-> <<>>]
NoStat    == [ok |-> FALSE, rss |-> 0]

\* status.name.contains("java")
is_java_name(proc) == str_contains(proc.status.name, Java)

\* if let Ok(cmdline) = proc.cmdline() { !cmdline.is_empty() && cmdline[0].contains("java") } else { false }
is_java_cmd(proc) ==
    /\ proc.cmdline.ok
    /\ proc.cmdline.args # <<>>
    /\ str_contains(proc.cmdline.args[1], Java)

\* mutant of is_candidate: the java test is forgotten
is_candidate_any(proc) == proc.status.ok /\ proc.stat.ok

\* the nest of `if let Ok(status)`, `if is_java_name || is_java_cmd`, `if let Ok(stat)`
\* around java_candidates.push
is_candidate(proc) ==
    /\ proc.status.ok
    /\ (is_java_name(proc) \/ is_java_cmd(proc))
    /\ proc.stat.ok

\* stat.rss as u64 * 4096 (rss is bounded by physical memory: no wrap-around)
rss_bytes(proc) == proc.stat.rss * PageSize

\* Iterator::max_by_key on the second component: the last of the maximal elements
max_by_key(cands) ==
    LET best == CHOOSE i \in DOMAIN cands :
                   /\ \A j \in DOMAIN cands : cands[j][2] <= cands[i][2]
                   /\ \A j \in DOMAIN cands : j > i => cands[j][2] < cands[i][2]
    IN  cands[best]

\* java_candidates.is_empty()
no_candidates(cands) == cands = <<>>

\* let processes = procfs::process::all_processes()?;
AllProcesses ==
    /\ pc = "start"
    /\ \/ /\ pc' = "loop"
          /\ err' = err
       \/ /\ pc' = "failed"
          /\ err' = "EnumerationFailure"
    /\ UNCHANGED <<prior, processes, pi, java_candidates, pid, shown_pid, mem, maps, ln,
                   found_s1, found_s2, verdict, wstatus, calls>>

\* one iteration of `for proc in processes`
FjStep ==
    /\ pc = "loop"
    /\ pi <= Len(processes)
    /\ java_candidates' =
          IF is_candidate(processes[pi])
          THEN Append(java_candidates, <<processes[pi].pid, rss_bytes(processes[pi])>>)
          ELSE java_candidates
    /\ pi' = pi + 1
    /\ UNCHANGED <<prior, pc, err, processes, pid, shown_pid, mem, maps, ln,
                   found_s1, found_s2, verdict, wstatus, calls>>

\* after the loop: the empty check and max_by_key; main's .context(..)? on the result
FjFinish ==
    /\ pc = "loop"
    /\ pi > Len(processes)
    /\ IF no_candidates(java_candidates)
       THEN /\ pc' = "failed"
            /\ err' = "NotFound"
            /\ pid' = pid
       ELSE /\ pc' = "print_pid"
            /\ err' = err
            /\ pid' = max_by_key(java_candidates)[1]
    /\ UNCHANGED <<prior, processes, pi, java_candidates, shown_pid, mem, maps, ln,
                   found_s1, found_s2, verdict, wstatus, calls>>

\* println!("{}", pid);
PrintPid ==
    /\ pc = "print_pid"
    /\ shown_pid' = pid
    /\ pc' = "attach"
    /\ UNCHANGED <<prior, err, processes, pi, java_candidates, pid, mem, maps, ln,
                   found_s1, found_s2, verdict, wstatus, calls>>

\* Catalogue of process-listing entries
NameCatalog == { <<"x", "j", "a", "v", "a", "d">>, <<"J", "a", "v", "a">> }

StatusCatalog == {NoStatus} \cup { [ok |-> TRUE, name |-> n] : n \in NameCatalog }

CmdlineCatalog ==
    { NoCmdline,
      [ok |-> TRUE, args |-> <<>>],
      [ok |-> TRUE, args |-> << <<"/", "j", "a", "v", "a">>, <<"-", "X">> >>],
      [ok |-> TRUE, args |-> << <<"s", "h">>, Java >>] }

StatCatalog == {NoStat} \cup { [ok |-> TRUE, rss |-> r] : r \in 1..2 }

ProcKinds == [status : StatusCatalog, cmdline : CmdlineCatalog, stat : StatCatalog]

\* a process list: distinct pids in listing order
ProcList(kinds) ==
    [i \in DOMAIN kinds |->
        [pid |-> 10 + i, status |-> kinds[i].status,
         cmdline |-> kinds[i].cmdline, stat |-> kinds[i].stat]]

\* the process lists of the catalogue
IsProcList(list) ==
    \E n \in 0..MaxProcs : \E k \in [1..n -> ProcKinds] : list = ProcList(k)

----------------------------------------------------------------------------
(* Memory scanner: signatures and the search *)

\* A u32 constant as its two 16-bit halves (4242546329 = 64736 * 65536 + 7833
\* does not fit the model checker's integers).
U32(hi, lo) == [hi |-> hi, lo |-> lo]

S1 == << U32(64736, 7833), U32(0, 4601), U32(0, 0), U32(0, 0) >>
S2 == << U32(64736, 7833), U32(0, 505), U32(0, 0), U32(0, 0) >>

\* u32::to_le_bytes
to_le_bytes(n) == << n.lo % 256, n.lo \div 256, n.hi % 256, n.hi \div 256 >>

\* words.iter().flat_map(|n| n.to_le_bytes()).collect()
RECURSIVE flat_map_le(_)
flat_map_le(words) ==
    IF words = <<>> THEN <<>>
    ELSE to_le_bytes(Head(words)) \o flat_map_le(Tail(words))

s1 == flat_map_le(S1)
s2 == flat_map_le(S2)

\* mutant of search_in: the pattern is only looked for at the start of the buffer
search_in_start_only(sig, data) == SubSeq(data, 1, Len(sig)) = sig

\* TwoWaySearcher::new(sig).search_in(data).is_some(): exact substring search
search_in(sig, data) == Occurs(sig, data)

\* the closure search_s
search_s(data, sig) ==
    IF sig = <<>> \/ Len(data) < Len(sig) THEN FALSE
    ELSE search_in(sig, data)

----------------------------------------------------------------------------
(* Memory scanner: parsing one record of the memory map *)

Whitespace == {" ", "\t"}

\* str::split(separator set): empty pieces are kept
RECURSIVE split_acc(_, _, _, _)
split_acc(s, seps, cur, out) ==
    IF s = <<>> THEN Append(out, cur)
    ELSE IF Head(s) \in seps
         THEN split_acc(Tail(s), seps, <<>>, Append(out, cur))
         ELSE split_acc(Tail(s), seps, Append(cur, Head(s)), out)

split(s, seps) == split_acc(s, seps, <<>>, <<>>)

\* str::split_whitespace: empty pieces are dropped
split_whitespace(s) == SelectSeq(split(s, Whitespace), LAMBDA f : f # <<>>)

\* perms.contains('r')
has_r(perms) == \E i \in DOMAIN perms : perms[i] = "r"

HexDigits == <<"0", "1", "2", "3", "4", "5", "6", "7", "8", "9",
               "a", "b", "c", "d", "e", "f">>
HexUpper  == <<"0", "1", "2", "3", "4", "5", "6", "7", "8", "9",
               "A", "B", "C", "D", "E", "F">>

IsHex(c) == \E i \in DOMAIN HexDigits : HexDigits[i] = c \/ HexUpper[i] = c

HexVal(c) == (CHOOSE i \in DOMAIN HexDigits : HexDigits[i] = c \/ HexUpper[i] = c) - 1

RECURSIVE hex_acc(_, _)
hex_acc(s, acc) ==
    IF s = <<>> THEN acc ELSE hex_acc(Tail(s), acc * 16 + HexVal(Head(s)))

\* u64::from_str_radix(s, 16): an optional leading '+', then one or more hex
\* digits (the catalogue's numbers are far below 2^64: no overflow error)
from_str_radix(s) ==
    LET digits == IF s # <<>> /\ Head(s) = "+" THEN Tail(s) ELSE s
    IN  IF digits = <<>> \/ \E i \in DOMAIN digits : ~IsHex(digits[i])
        THEN [ok |-> FALSE, v |-> 0]
        ELSE [ok |-> TRUE, v |-> hex_acc(digits, 0)]

\* what one iteration of the loop over the map does with a record before any I/O
Skip          == [kind |-> "skip", start |-> 0, size |-> 0]
Panic         == [kind |-> "panic", start |-> 0, size |-> 0]
Region(a, n)  == [kind |-> "region", start |-> a, size |-> n]

\* let region_size = (end - start) as usize; if region_size == 0 { continue; }
\* let mut buffer = vec![0u8; region_size];
\* With end < start the subtraction overflows: a debug build panics on it, a
\* release build wraps it to 2^64 - (start - end) and the allocation of that
\* many bytes panics (capacity overflow) or aborts. Either way the process dies.
region_of(start, end) ==
    IF end < start THEN Panic
    ELSE IF end - start = 0 THEN Skip
    ELSE Region(start, end - start)

\* mutant of perms_pass: the permission filter is dropped
perms_pass_any(perms) == TRUE

\* if !perms.contains('r') { continue; }
perms_pass(perms) == has_r(perms)

\* lines 79-102 of scan_memory
parse_record(line) ==
    LET parts == split_whitespace(line)
    IN  IF Len(parts) < 2 THEN Skip
        ELSE IF ~perms_pass(parts[2]) THEN Skip
        ELSE LET addresses == split(parts[1], {"-"})
             IN  IF Len(addresses) # 2 THEN Skip
                 ELSE LET start == from_str_radix(addresses[1])
                          end   == from_str_radix(addresses[2])
                      IN  IF ~start.ok \/ ~end.ok THEN Skip
                          ELSE region_of(start.v, end.v)

\* BufRead::lines yields an error for a line that is not valid UTF-8
InvalidByte == "<ff>"
valid_utf8(line) == \A i \in DOMAIN line : line[i] # InvalidByte

----------------------------------------------------------------------------
(* Memory scanner: the memory image *)

SigLen   == Len(s1)
SlotSize == 2 * SigLen          \* 0x20
MemSize  == 2 * SlotSize        \* 0x40: the image holds addresses 0x00..0x3f
SeekLimit == 2 * MemSize        \* 0x80: offsets from here on cannot be sought

Pad(n) == [i \in 1..n |-> 0]

Payload(p) == IF p = 1 THEN s1 ELSE IF p = 2 THEN s2 ELSE <<>>

Slot(p, off) == Pad(off) \o Payload(p) \o Pad(SlotSize - off - Len(Payload(p)))

Images == { Slot(a, off) \o Slot(b, off) : a \in 0..2, b \in 0..2, off \in 0..MaxOff }

\* mem_file.seek(SeekFrom::Start(start)).is_err()
seek_ok(start) == start < SeekLimit

\* mem_file.read_exact(&mut buffer): every byte of the range or an error
read_ok(image, start, size) == start + size <= Len(image)

read_exact(image, start, size) == SubSeq(image, start + 1, start + size)

----------------------------------------------------------------------------
(* Memory scanner: the memory map *)

\* "00-20 r--p 0": slot A, readable, with a further field
LineA == <<"0", "0", "-", "2", "0", " ", "r", "-", "-", "p", " ", "0">>

\* "20-40  rw-p": slot B, readable, two blanks between the fields
LineB == <<"2", "0", "-", "4", "0", " ", " ", "r", "w", "-", "p">>

\* "00-20 -w-p": slot A, no read permission
LineANoR == <<"0", "0", "-", "2", "0", " ", "-", "w", "-", "p">>

\* "00-40 r-xp": both slots as one readable region
LineAB == <<"0", "0", "-", "4", "0", " ", "r", "-", "x", "p">>

\* "20-20 r--p": zero-length range
LineEmpty == <<"2", "0", "-", "2", "0", " ", "r", "-", "-", "p">>

\* "40-20 r--p": end below start
LineRev == <<"4", "0", "-", "2", "0", " ", "r", "-", "-", "p">>

\* "g0-20 r--p": start is not a hexadecimal number
LineBadHex == <<"g", "0", "-", "2", "0", " ", "r", "-", "-", "p">>

\* "00-20": a single field
LineOne == <<"0", "0", "-", "2", "0">>

\* "30-50 r--p": runs past the end of the image: short read
LinePast == <<"3", "0", "-", "5", "0", " ", "r", "-", "-", "p">>

\* "80-A0 r--p": start at an offset the stream cannot seek to
LineHigh == <<"8", "0", "-", "A", "0", " ", "r", "-", "-", "p">>

\* a record naming a mapped file whose path is not valid UTF-8
LineBadUtf8 == <<"0", "0", "-", "2", "0", " ", "r", "-", "-", "p", " ", InvalidByte>>

LineCatalog == { LineA, LineB, LineANoR, LineAB, LineEmpty, LineRev, LineBadHex,
                 LineOne, LinePast, LineHigh, LineBadUtf8 }

\* the maps files of the catalogue
IsMapsFile(file) ==
    \E n \in 0..MaxLines : \E f \in [1..n -> LineCatalog] : file = f

----------------------------------------------------------------------------
(* Memory scanner: scan_memory *)

Call(name, n) == <<name, n>>

Called(name) == \E i \in DOMAIN calls : calls[i][1] = name

\* mutant of on_attach_error: the error of attach is dropped
on_attach_error_ignored == "wait"

\* where scan_memory goes when ptrace::attach fails: the `?` returns the error
on_attach_error == "failed"

\* ptrace::attach(nix_pid)?;
Attach ==
    /\ pc = "attach"
    /\ calls' = Append(calls, Call("attach", 0))
    /\ \/ /\ pc' = "wait"
          /\ err' = err
       \/ /\ pc' = on_attach_error
          /\ err' = "AttachFailure"
    /\ UNCHANGED <<prior, processes, pi, java_candidates, pid, shown_pid, mem, maps, ln,
                   found_s1, found_s2, verdict, wstatus>>

\* mutant of after_wait: any status that is not an error counts as a stop
after_wait_any_status(status) == IF status = "error" THEN "failed" ELSE "open_mem"

\* mutant of after_wait: a wait error goes on to detach
after_wait_error_detaches(status) ==
    IF status = "stopped" THEN "open_mem"
    ELSE IF status = "other" THEN "wait"
    ELSE "detach"

\* where scan_memory goes after waitpid returned: "stopped", "other" or "error"
after_wait(status) ==
    IF status = "stopped" THEN "open_mem"
    ELSE IF status = "other" THEN "wait"
    ELSE "failed"

\* one turn of the loop around waitpid
Wait ==
    /\ pc = "wait"
    /\ calls' = IF wstatus = "other" THEN calls ELSE Append(calls, Call("wait", 0))
    /\ \E status \in {"stopped", "other", "error"} :
          /\ wstatus' = status
          /\ pc' = after_wait(status)
          /\ err' = IF pc' = "failed" THEN "WaitFailure" ELSE err
    /\ UNCHANGED <<prior, processes, pi, java_candidates, pid, shown_pid, mem, maps, ln,
                   found_s1, found_s2, verdict>>

\* where scan_memory goes when File::open fails on /proc/<pid>/mem or /proc/<pid>/maps
on_open_error == "failed"

\* let mut mem_file = File::open(format!("/proc/{}/mem", pid))?;
OpenMem ==
    /\ pc = "open_mem"
    /\ calls' = Append(calls, Call("open_mem", 0))
    /\ \/ /\ pc' = "open_maps"
          /\ IF prior = "none" THEN mem' \in Images ELSE mem' = mem
          /\ err' = err
       \/ /\ pc' = on_open_error
          /\ mem' = mem
          /\ err' = IF pc' = "failed" THEN "MemOpenFailure" ELSE err
    /\ UNCHANGED <<prior, processes, pi, java_candidates, pid, shown_pid, maps, ln,
                   found_s1, found_s2, verdict, wstatus>>

\* mutant of reader_start: the reader goes on where an earlier scan stopped
reader_keeps_position(prev) == prev

\* std::io::BufReader::new(maps_file): a fresh reader starts at the first line
reader_start(prev) == 1

\* let maps_file = File::open(format!("/proc/{}/maps", pid))?; the reader and
\* let mut found_s1 = false; let mut found_s2 = false;
OpenMaps ==
    /\ pc = "open_maps"
    /\ calls' = Append(calls, Call("open_maps", 0))
    /\ \/ /\ pc' = "scan"
          /\ IF prior = "none" THEN IsMapsFile(maps') ELSE maps' = maps
          /\ ln' = reader_start(ln)
          /\ found_s1' = FALSE
          /\ found_s2' = FALSE
          /\ err' = err
       \/ /\ pc' = on_open_error
          /\ maps' = maps
          /\ err' = IF pc' = "failed" THEN "MapOpenFailure" ELSE err
          /\ UNCHANGED <<ln, found_s1, found_s2>>
    /\ UNCHANGED <<prior, processes, pi, java_candidates, pid, shown_pid, mem,
                   verdict, wstatus>>

\* if !found_s1 && search_s(&buffer, &s1) { found_s1 = true; }
next_found_s1(f1, buffer) == f1 \/ search_s(buffer, s1)

\* mutant of next_found_s2: the second search looks for s1 again
next_found_s2_wrong_sig(f1, f2, buffer) == f2 \/ (~f1 /\ search_s(buffer, s1))

\* mutant of next_found_s2: S2 is searched whether or not S1 was found
next_found_s2_no_priority(f1, f2, buffer) == f2 \/ search_s(buffer, s2)

\* if !found_s1 && !found_s2 && search_s(&buffer, &s2) { found_s2 = true; }
next_found_s2(f1, f2, buffer) == f2 \/ (~f1 /\ search_s(buffer, s2))

\* mutant of after_search: the loop breaks after the first region it searched
after_search_always_break(f1, f2) == "detach"

\* mutant of after_search: a match returns straight to the verdict
after_search_skips_detach(f1, f2) == IF f1 \/ f2 THEN "verdict" ELSE "scan"

\* mutant of after_search: the loop goes on after a match
after_search_no_break(f1, f2) == "scan"

\* if found_s1 || found_s2 { break; }
after_search(f1, f2) == IF f1 \/ f2 THEN "detach" ELSE "scan"

\* mutant of on_io_error: a failed seek or read ends the loop
on_io_error_break == "detach"

\* `continue` after a failed seek or read_exact
on_io_error == "scan"

\* let line = line?;
on_line_error == "failed"

\* one iteration of `for line in maps_reader.lines()`
ScanLine ==
    /\ pc = "scan"
    /\ ln <= Len(maps)
    /\ LET line == maps[ln]
           rec  == parse_record(line)
       IN  IF ~valid_utf8(line)
           THEN /\ pc' = on_line_error
                /\ err' = IF pc' = "failed" THEN "MapReadFailure" ELSE err
                /\ ln' = IF pc' = "failed" THEN ln ELSE ln + 1
                /\ UNCHANGED <<found_s1, found_s2, calls>>
           ELSE IF rec.kind = "skip"
           THEN /\ ln' = ln + 1
                /\ UNCHANGED <<pc, err, found_s1, found_s2, calls>>
           ELSE IF rec.kind = "panic"
           THEN /\ pc' = "panicked"
                /\ UNCHANGED <<err, ln, found_s1, found_s2, calls>>
           ELSE IF ~seek_ok(rec.start)
           THEN /\ calls' = Append(calls, Call("seek", ln))
                /\ pc' = on_io_error
                /\ ln' = ln + 1
                /\ UNCHANGED <<err, found_s1, found_s2>>
           ELSE IF ~read_ok(mem, rec.start, rec.size)
           THEN /\ calls' = calls \o <<Call("seek", ln), Call("read", ln)>>
                /\ pc' = on_io_error
                /\ ln' = ln + 1
                /\ UNCHANGED <<err, found_s1, found_s2>>
           ELSE LET buffer == read_exact(mem, rec.start, rec.size)
                IN  /\ calls' = calls \o <<Call("seek", ln), Call("read", ln)>>
                    /\ found_s1' = next_found_s1(found_s1, buffer)
                    /\ found_s2' = next_found_s2(found_s1', found_s2, buffer)
                    /\ pc' = after_search(found_s1', found_s2')
                    /\ ln' = ln + 1
                    /\ err' = err
    /\ UNCHANGED <<prior, processes, pi, java_candidates, pid, shown_pid, mem, maps, verdict, wstatus>>

\* the reader is exhausted: the for loop ends
ScanEof ==
    /\ pc = "scan"
    /\ ln > Len(maps)
    /\ pc' = "detach"
    /\ UNCHANGED <<prior, err, processes, pi, java_candidates, pid, shown_pid, mem, maps, ln,
                   found_s1, found_s2, verdict, wstatus, calls>>

\* mutant of on_detach_error: a failed detach is tried again
on_detach_error_retries == "detach"

\* where scan_memory goes when ptrace::detach fails: the `?` returns the error
on_detach_error == "failed"

\* ptrace::detach(nix_pid, None)?;
Detach ==
    /\ pc = "detach"
    /\ calls' = Append(calls, Call("detach", 0))
    /\ \/ /\ pc' = "verdict"
          /\ err' = err
       \/ /\ pc' = on_detach_error
          /\ err' = IF pc' = "failed" THEN "DetachFailure" ELSE err
    /\ UNCHANGED <<prior, processes, pi, java_candidates, pid, shown_pid, mem, maps, ln,
                   found_s1, found_s2, verdict, wstatus>>

\* the if / else if / else around the three println! of scan_memory
resolve(f1, f2) == IF f1 THEN "S1" ELSE IF f2 THEN "S2" ELSE "NoMatch"

\* the verdict line, then Ok(())
PrintVerdict ==
    /\ pc = "verdict"
    /\ verdict' = resolve(found_s1, found_s2)
    /\ pc' = "done"
    /\ UNCHANGED <<prior, err, processes, pi, java_candidates, pid, shown_pid, mem, maps, ln,
                   found_s1, found_s2, wstatus, calls>>

\* the exit status of the process once it has ended: main returning Ok(()) exits
\* with 0, main returning Err with 1, a panic with 101
exit_status ==
    IF pc = "done" THEN 0 ELSE IF pc = "panicked" THEN 101 ELSE 1

----------------------------------------------------------------------------
(* Specifications *)

\* the listings of the whole-program specification: an empty one, one whose java
\* process has no readable resident size, one with no java process, one with two
\* java processes, and one whose only java process has an unreadable status
ProcListsMain ==
    { ProcList(<< >>),
      ProcList(<< [status |-> [ok |-> TRUE, name |-> <<"x", "j", "a", "v", "a", "d">>],
                   cmdline |-> NoCmdline,
                   stat |-> NoStat] >>),
      ProcList(<< [status |-> [ok |-> TRUE, name |-> <<"J", "a", "v", "a">>],
                   cmdline |-> [ok |-> TRUE, args |-> <<>>],
                   stat |-> [ok |-> TRUE, rss |-> 2]] >>),
      ProcList(<< [status |-> [ok |-> TRUE, name |-> <<"x", "j", "a", "v", "a", "d">>],
                   cmdline |-> NoCmdline,
                   stat |-> [ok |-> TRUE, rss |-> 1]],
                  [status |-> [ok |-> TRUE, name |-> <<"J", "a", "v", "a">>],
                   cmdline |-> [ok |-> TRUE, args |-> << <<"/", "j", "a", "v", "a">>, <<"-", "X">> >>],
                   stat |-> [ok |-> TRUE, rss |-> 2]] >>),
      ProcList(<< [status |-> NoStatus,
                   cmdline |-> [ok |-> TRUE, args |-> << <<"/", "j", "a", "v", "a">>, <<"-", "X">> >>],
                   stat |-> [ok |-> TRUE, rss |-> 2]] >>) }

InitRest ==
    /\ pc = "start"
    /\ err = "none"
    /\ pi = 1
    /\ java_candidates = <<>>
    /\ pid = 0
    /\ shown_pid = 0
    /\ mem = <<>>
    /\ maps = <<>>
    /\ ln = 1
    /\ found_s1 = FALSE
    /\ found_s2 = FALSE
    /\ verdict = "none"
    /\ wstatus = "none"
    /\ prior = "none"
    /\ calls = <<>>

Init == processes \in ProcListsMain /\ InitRest

Next ==
    \/ AllProcesses
    \/ FjStep
    \/ FjFinish
    \/ PrintPid
    \/ Attach
    \/ Wait
    \/ OpenMem
    \/ OpenMaps
    \/ ScanLine
    \/ ScanEof
    \/ Detach
    \/ PrintVerdict

\* main: find_java, then scan_memory
Spec == Init /\ [][Next]_vars

InitSel == IsProcList(processes) /\ InitRest

NextSel ==
    \/ AllProcesses
    \/ FjStep
    \/ FjFinish

\* find_java alone, over every process list of the catalogue
SpecSel == InitSel /\ [][NextSel]_vars

\* scan_memory is called again on the same target, which has not changed: the
\* memory image and the map are those of the scan that has just printed its verdict
Rerun ==
    /\ pc = "done"
    /\ prior = "none"
    /\ prior' = verdict
    /\ pc' = "attach"
    /\ verdict' = "none"
    /\ wstatus' = "none"
    /\ calls' = <<>>
    /\ UNCHANGED <<err, processes, pi, java_candidates, pid, shown_pid, mem, maps, ln,
                   found_s1, found_s2>>

NextTwice == Next \/ Rerun

\* main followed by a second scan of the unchanged target
SpecTwice == Init /\ [][NextTwice]_vars

\* every statement of main outside the body of the scan loop
StraightLine ==
    \/ AllProcesses \/ FjStep \/ FjFinish \/ PrintPid
    \/ Attach \/ Wait \/ OpenMem \/ OpenMaps
    \/ ScanEof \/ Detach \/ PrintVerdict

\* the run when the program is scheduled and the wait on the target does not
\* return transitional statuses for ever: weak fairness of every step. An
\* iteration of the loop is enabled exactly when the reader has a line left,
\* so the fairness of ScanLine is written with that condition.
SpecFair ==
    /\ Init /\ [][Next]_vars
    /\ WF_vars(StraightLine)
    /\ ([]<>~(pc = "scan" /\ ln <= Len(maps)) \/ []<><<ScanLine>>_vars)

----------------------------------------------------------------------------
(* Vocabulary of the properties *)

Terminal == pc \in {"done", "failed", "panicked"}

\* the loop over the map has ended by exhaustion or by break
AfterLoop == pc \in {"detach", "verdict", "done"} \/ err = "DetachFailure"

\* the name read succeeded and the name contains "java"
NameHasJava(proc) == proc.status.ok /\ Occurs(Java, proc.status.name)

\* the command-line read succeeded and the first argument contains "java"
ArgHasJava(proc) ==
    proc.cmdline.ok /\ Len(proc.cmdline.args) >= 1 /\ Occurs(Java, proc.cmdline.args[1])

\* a candidate as the specification defines it
SpecCandidate(proc) == (NameHasJava(proc) \/ ArgHasJava(proc)) /\ proc.stat.ok

ProcOf(p) == CHOOSE i \in DOMAIN processes : processes[i].pid = p

\* what a record of the map says, read off its text once per catalogue line:
\* wf: valid text, two fields, a hexadecimal range; r: the permission field
\* holds 'r'; start, end: the range
RecordFacts(line) ==
    LET fields == split_whitespace(line)
        a  == split(fields[1], {"-"})
        lo == from_str_radix(a[1])
        hi == from_str_radix(a[2])
        ok == valid_utf8(line) /\ Len(fields) >= 2 /\ Len(a) = 2 /\ lo.ok /\ hi.ok
    IN  [wf    |-> ok,
         r     |-> Len(fields) >= 2 /\ has_r(fields[2]),
         text  |-> valid_utf8(line),
         start |-> IF ok THEN lo.v ELSE 0,
         end   |-> IF ok THEN hi.v ELSE 0]

Facts == [line \in LineCatalog |-> RecordFacts(line)]

RecHasR(line) == Facts[line].r

RecRange(line) == Facts[line]

WellFormed(line) == Facts[line].wf

\* a record with read permission and a non-empty range
ReadableRegion(line) ==
    WellFormed(line) /\ RecHasR(line) /\ RecRange(line).start < RecRange(line).end

\* ... whose seek and read succeed on the image
GoodRegion(line) ==
    /\ ReadableRegion(line)
    /\ RecRange(line).start < SeekLimit
    /\ RecRange(line).end <= Len(mem)

\* ... whose seek or read fails on the image
IoFails(line) == ReadableRegion(line) /\ ~GoodRegion(line)

\* the bytes of the image a good region covers
Bytes(line) == SubSeq(mem, RecRange(line).start + 1, RecRange(line).end)

Holds(sig, line) == GoodRegion(line) /\ Occurs(sig, Bytes(line))

\* a record that ends the run instead of being skipped or searched
Aborts(line) ==
    \/ ~Facts[line].text
    \/ WellFormed(line) /\ RecHasR(line) /\ RecRange(line).end < RecRange(line).start

Attempted(name, i) == \E k \in DOMAIN calls : calls[k] = Call(name, i)

----------------------------------------------------------------------------
(* C1..C10 *)

\* C1 (as claimed): once attach succeeded and a stop was observed (the memory
\* image was about to be opened), every end of the run is preceded by a
\* detach attempt.
C1_DetachOnEveryLateExit ==
    (Terminal /\ Called("open_mem")) => Called("detach")

\* C2 (as claimed): when a signature was matched during the loop and detach
\* then fails, the verdict computed from the match flags is still printed.
C2_VerdictSurvivesDetachFailure ==
    (err = "DetachFailure" /\ (found_s1 \/ found_s2)) =>
        verdict = resolve(found_s1, found_s2)

\* C3 (as claimed): the pid find_java returns has a resident size at least
\* that of every process whose name or first argument contains "java" and
\* whose resident size could be read.
C3_SelectsMaxResident ==
    pc = "print_pid" =>
        \A i \in DOMAIN processes :
            SpecCandidate(processes[i]) =>
                processes[i].stat.rss <= processes[ProcOf(pid)].stat.rss

\* C4 (as claimed): after the loop of find_java, every process whose name or
\* first argument contains "java" and whose resident size is readable has
\* been pushed as a candidate, whichever of the two reads failed.
C4_ReadsFailIndependently ==
    (pc \in {"print_pid", "failed"} /\ err # "EnumerationFailure") =>
        \A i \in DOMAIN processes :
            SpecCandidate(processes[i]) =>
                \E k \in DOMAIN java_candidates :
                    java_candidates[k][1] = processes[i].pid

\* the two-region scenario: the first record has no read permission and its
\* range holds S1, the second is read successfully and holds S2 but not S1
C5_Scenario ==
    /\ Len(maps) = 2
    /\ WellFormed(maps[1]) /\ ~RecHasR(maps[1])
    /\ RecRange(maps[1]).start < RecRange(maps[1]).end
    /\ RecRange(maps[1]).end <= Len(mem)
    /\ Occurs(s1, Bytes(maps[1]))
    /\ Holds(s2, maps[2]) /\ ~Holds(s1, maps[2])

\* C5: a record whose permission field lacks 'r' is never sought or read, and
\* in the two-region scenario the loop ends with S2 matched and S1 not, and
\* the verdict printed is S2.
C5_UnreadableNeverRead ==
    /\ \A k \in DOMAIN calls :
          calls[k][1] \in {"seek", "read"} => RecHasR(maps[calls[k][2]])
    /\ (AfterLoop /\ C5_Scenario) =>
          /\ found_s2 /\ ~found_s1
          /\ pc = "done" => verdict = "S2"

C5_Witness == pc = "done" /\ C5_Scenario /\ verdict = "S2"

\* the iteration over a region whose seek or read fails only moves to the next record
C6_IoSkipStep ==
    (pc = "scan" /\ ln <= Len(maps) /\ IoFails(maps[ln])) =>
        /\ pc' = "scan"
        /\ ln' = ln + 1
        /\ err' = err
        /\ found_s1' = found_s1
        /\ found_s2' = found_s2

\* a region read successfully after a failed one still has its signature detected
C6_LaterMatch ==
    (AfterLoop /\ \E i, j \in DOMAIN maps :
                     /\ i < j
                     /\ IoFails(maps[i])
                     /\ (Holds(s1, maps[j]) \/ Holds(s2, maps[j]))) =>
        /\ found_s1 \/ found_s2
        /\ pc = "done" => verdict \in {"S1", "S2"}

\* C6: a seek failure or a failed or short read of a region does not abort the
\* scan: the iteration changes nothing but the position in the map, the scan
\* goes on with the next record, and a signature in a later region that is
\* read successfully is detected.
C6_IoErrorSkipsRegion == [][C6_IoSkipStep]_vars /\ []C6_LaterMatch

C6_Witness ==
    /\ pc = "done"
    /\ verdict \in {"S1", "S2"}
    /\ \E i, j \in DOMAIN maps :
          /\ i < j
          /\ IoFails(maps[i]) /\ Attempted("seek", i)
          /\ (Holds(s1, maps[j]) \/ Holds(s2, maps[j])) /\ Attempted("read", j)

\* C7: when some region that is read successfully holds S1 (at any offset) and
\* the image holds S2 nowhere, the loop ends with S1 matched and the verdict
\* printed is S1.
C7_S1AtAnyOffset ==
    (AfterLoop /\ ~Occurs(s2, mem) /\ \E j \in DOMAIN maps : Holds(s1, maps[j])) =>
        /\ found_s1 /\ ~found_s2
        /\ pc = "done" => verdict = "S1"

\* S1 is matched although it does not start at the first byte of its region
C7_Witness ==
    /\ pc = "done" /\ verdict = "S1"
    /\ ~Occurs(s2, mem)
    /\ \E j \in DOMAIN maps :
          /\ Holds(s1, maps[j])
          /\ Attempted("read", j)
          /\ SubSeq(Bytes(maps[j]), 1, SigLen) # s1

\* C8: when some region that is read successfully holds S2 and the image holds
\* S1 nowhere, the loop ends with S2 matched and the verdict printed is S2.
C8_OnlyS2 ==
    (AfterLoop /\ ~Occurs(s1, mem) /\ \E j \in DOMAIN maps : Holds(s2, maps[j])) =>
        /\ found_s2 /\ ~found_s1
        /\ pc = "done" => verdict = "S2"

C8_Witness ==
    /\ pc = "done" /\ verdict = "S2"
    /\ ~Occurs(s1, mem)
    /\ \E j \in DOMAIN maps : Holds(s2, maps[j]) /\ Attempted("read", j)

\* C9: when no region that is read successfully holds a signature the loop ends
\* with no match and the verdict printed is NoMatch; and a NoMatch verdict is
\* only printed after every record with read permission and a non-empty range
\* had its seek attempted and, where the seek succeeded, its read.
C9_NoMatchCoversMap ==
    /\ (AfterLoop /\ \A j \in DOMAIN maps : ~Holds(s1, maps[j]) /\ ~Holds(s2, maps[j])) =>
          /\ ~found_s1 /\ ~found_s2
          /\ pc = "done" => verdict = "NoMatch"
    /\ verdict = "NoMatch" =>
          \A j \in DOMAIN maps :
              ReadableRegion(maps[j]) =>
                  /\ Attempted("seek", j)
                  /\ RecRange(maps[j]).start < SeekLimit => Attempted("read", j)

\* NoMatch after two regions were read successfully
C9_Witness ==
    /\ verdict = "NoMatch"
    /\ \E i, j \in DOMAIN maps :
          i < j /\ GoodRegion(maps[i]) /\ GoodRegion(maps[j])

\* C10: when the listing was obtained and no process qualifies, the run ends
\* with NotFound, nothing was printed and no call was made on any target; and
\* NotFound never comes with a call on a target or a verdict.
C10_NotFoundNoScan ==
    /\ (pc \notin {"start", "loop"} /\ err # "EnumerationFailure"
          /\ \A i \in DOMAIN processes : ~SpecCandidate(processes[i])) =>
          /\ pc = "failed" /\ err = "NotFound"
          /\ calls = <<>> /\ verdict = "none" /\ shown_pid = 0 /\ mem = <<>>
    /\ err = "NotFound" => (pc = "failed" /\ calls = <<>> /\ verdict = "none")

\* NotFound on a listing that holds processes, none of them qualifying
C10_Witness ==
    /\ err = "NotFound"
    /\ processes # <<>>
    /\ \A i \in DOMAIN processes : ~SpecCandidate(processes[i])

----------------------------------------------------------------------------
(* C11..C20 *)

\* the fatal errors the claim lists: selection, attach, wait, opening the map
\* description or the memory image
ListedFatal ==
    err \in {"EnumerationFailure", "NotFound", "AttachFailure", "WaitFailure",
             "MemOpenFailure", "MapOpenFailure"}

\* C11 (as claimed): when the run has ended, its exit status is nonzero exactly
\* when a fatal error came from selection, attach, wait or opening the map
\* description or memory image; in particular it is zero after a detach failure.
C11_ExitStatus ==
    Terminal => (exit_status # 0 <=> ListedFatal)

\* how many calls of this name were issued
CountCalls(name) == Cardinality({ k \in DOMAIN calls : calls[k][1] = name })

\* the verdict is about to be printed or has been: detach was called once and
\* is the last call, so every seek and read comes before it
C12_DetachedOnce ==
    (pc \in {"verdict", "done"} \/ verdict # "none") =>
        /\ CountCalls("detach") = 1
        /\ calls[Len(calls)] = Call("detach", 0)

\* the step that prints the verdict starts from a state where detach was called
C12_DetachBeforeVerdict == verdict' # verdict => Called("detach")

\* C12: on a successful return of scan_memory detach was attempted exactly
\* once, after the last seek/read of the memory image and before the verdict
\* is printed.
C12_DetachOnceBeforeVerdict == []C12_DetachedOnce /\ [][C12_DetachBeforeVerdict]_vars

\* a verdict after at least one region was read
C12_Witness ==
    /\ pc = "done" /\ verdict # "none"
    /\ \E j \in DOMAIN maps : Attempted("read", j)
    /\ calls[Len(calls)] = Call("detach", 0)

MemoryCalls == {"open_mem", "open_maps", "seek", "read"}

\* every call on the target's memory comes after attach and a wait, before any
\* detach, and only once the last wait returned a stop
C14_TracedWhenRead ==
    /\ \A k \in DOMAIN calls :
          calls[k][1] \in MemoryCalls =>
              /\ wstatus = "stopped"
              /\ \E a, w \in 1..(k - 1) :
                    a < w /\ calls[a][1] = "attach" /\ calls[w][1] = "wait"
              /\ \A d \in 1..(k - 1) : calls[d][1] # "detach"
    /\ wstatus # "stopped" => (mem = <<>> /\ maps = <<>>)
    /\ Called("wait") => err # "AttachFailure"

\* a wait that returns a non-stopped status is followed by another wait
C14_WaitAgain == (pc = "wait" /\ wstatus' = "other") => pc' = "wait"

\* C14: every seek or read of the memory image (and the opening of the image
\* and of the map) happens after attach succeeded and a wait returned a
\* stopped status, and before detach is called; a wait that returns a
\* non-stopped status leads to another wait, never to the memory.
C14_MemoryOnlyWhileTraced == []C14_TracedWhenRead /\ [][C14_WaitAgain]_vars

\* a region was read and the target was detached afterwards
C14_Witness ==
    /\ Called("detach")
    /\ \E j \in DOMAIN maps : Attempted("read", j)

\* C15: a wait error is terminal: the run has failed with the wait failure, the
\* memory image and the map were not opened, detach was not called and no
\* verdict was printed.
C15_WaitErrorTerminal ==
    (wstatus = "error" \/ err = "WaitFailure") =>
        /\ pc = "failed" /\ err = "WaitFailure" /\ wstatus = "error"
        /\ calls = <<Call("attach", 0), Call("wait", 0)>>
        /\ mem = <<>> /\ maps = <<>>
        /\ verdict = "none"

C15_Witness == err = "WaitFailure" /\ pc = "failed" /\ ~Called("detach")

\* C19: when attach fails the run has failed with the attach failure and attach
\* is the only call made on the target: no wait, no open, no detach, no verdict.
C19_AttachErrorTerminal ==
    err = "AttachFailure" =>
        /\ pc = "failed"
        /\ calls = <<Call("attach", 0)>>
        /\ wstatus = "none"
        /\ mem = <<>> /\ maps = <<>>
        /\ verdict = "none"

C19_Witness == err = "AttachFailure" /\ pc = "failed" /\ calls = <<Call("attach", 0)>>

\* some signature lies in a region that is read successfully
HoldsAny(line) == Holds(s1, line) \/ Holds(s2, line)

\* the record the loop stopped at
Matched == ln - 1

\* once a flag is set the loop is over, the match lies in the record just
\* processed, no earlier record held a signature and no later one was touched
C16_StoppedAtFirst ==
    (found_s1 \/ found_s2) =>
        /\ AfterLoop
        /\ Matched \in DOMAIN maps
        /\ HoldsAny(maps[Matched]) /\ Attempted("read", Matched)
        /\ \A j \in 1..(Matched - 1) : ~HoldsAny(maps[j])
        /\ \A j \in DOMAIN maps :
              j > Matched => ~Attempted("seek", j) /\ ~Attempted("read", j)

\* the first region in file order that holds a signature decides the verdict
C16_FirstDecides ==
    (AfterLoop /\ \E j \in DOMAIN maps : HoldsAny(maps[j])) =>
        LET first == CHOOSE j \in DOMAIN maps :
                        HoldsAny(maps[j]) /\ \A i \in 1..(j - 1) : ~HoldsAny(maps[i])
        IN  /\ Matched = first
            /\ found_s1 <=> Holds(s1, maps[first])
            /\ found_s2 <=> ~Holds(s1, maps[first])
            /\ pc = "done" =>
                  verdict = IF Holds(s1, maps[first]) THEN "S1" ELSE "S2"

\* records are taken in file order, and after a match nothing but detach and
\* the verdict follows
C16_InOrderStep ==
    /\ ln' \in {ln, ln + 1}
    /\ (found_s1 \/ found_s2) =>
          /\ ln' = ln /\ found_s1' = found_s1 /\ found_s2' = found_s2
          /\ pc' \in {"detach", "verdict", "done", "failed"}
    /\ (~(found_s1 \/ found_s2) /\ (found_s1' \/ found_s2')) => pc' = "detach"

\* C16: the scan short-circuits on the first match: once a signature is found
\* no later map record is parsed, sought, read or searched and the scan goes
\* straight to detach; records are processed in file order, so the first
\* successfully read region in file order that holds a signature determines
\* the verdict.
C16_ShortCircuit ==
    []C16_StoppedAtFirst /\ []C16_FirstDecides /\ [][C16_InOrderStep]_vars

\* S2 was matched in the first record although the second one holds S1
C16_Witness ==
    /\ pc = "done" /\ verdict = "S2"
    /\ Matched = 1 /\ Attempted("read", 1)
    /\ Len(maps) = 2 /\ Holds(s1, maps[2])

\* C17: S1 has priority over S2: at most one of the two flags is ever set; a
\* matched region holding both signatures yields S1; and S2 is matched (and
\* reported) only when no region that was read before the loop ended, the
\* matched one included, holds S1.
C17_S1Priority ==
    /\ ~(found_s1 /\ found_s2)
    /\ (found_s2 \/ verdict = "S2") =>
          /\ found_s2
          /\ \A j \in 1..Matched : ~Holds(s1, maps[j])
    /\ ((found_s1 \/ found_s2) /\ Matched \in DOMAIN maps
            /\ Holds(s1, maps[Matched]) /\ Holds(s2, maps[Matched])) =>
          /\ found_s1
          /\ pc = "done" => verdict = "S1"

\* a region holding both signatures was read and S1 was reported
C17_Witness ==
    /\ pc = "done" /\ verdict = "S1"
    /\ Matched \in DOMAIN maps /\ Attempted("read", Matched)
    /\ Holds(s1, maps[Matched]) /\ Holds(s2, maps[Matched])

\* a record of valid text that is malformed or whose range is empty or reversed
InvalidRecord(line) ==
    /\ Facts[line].text
    /\ ~WellFormed(line) \/ RecRange(line).end <= RecRange(line).start

\* C18 (as claimed): a map record that is malformed or whose range has
\* end <= start is skipped without error: the run does not stop at it, and no
\* seek or read is issued for it.
C18_InvalidRecordSkipped ==
    \A j \in DOMAIN maps :
        InvalidRecord(maps[j]) =>
            /\ ~Attempted("seek", j) /\ ~Attempted("read", j)
            /\ ~(ln = j /\ (pc = "panicked" \/ err = "MapReadFailure"))

\* the calls on the target are made at most once each, detach after attach
C20_Once ==
    /\ CountCalls("attach") <= 1
    /\ CountCalls("detach") <= 1
    /\ \A j \in DOMAIN maps :
          /\ Cardinality({ k \in DOMAIN calls : calls[k] = Call("seek", j) }) <= 1
          /\ Cardinality({ k \in DOMAIN calls : calls[k] = Call("read", j) }) <= 1
    /\ \A d \in DOMAIN calls :
          calls[d][1] = "detach" => \E a \in 1..(d - 1) : calls[a][1] = "attach"

\* no step follows the end of the run, the position in the map never goes
\* back, and the scan is not re-entered
C20_Forward ==
    /\ ~Terminal
    /\ ln' >= ln
    /\ pc \in {"detach", "verdict"} => pc' \notin {"attach", "wait", "open_mem", "open_maps", "scan"}

\* C20: when the wait on the target eventually returns a stop or an error,
\* every run ends (done, failed, or aborted); attach is called at most once,
\* each map record is processed at most once and in order, detach is called at
\* most once and never before attach, and nothing follows the end of the run.
C20_Terminates == <>Terminal /\ []C20_Once /\ [][C20_Forward]_vars

\* a run that waited through a transitional status, scanned two regions and ended
C20_Witness ==
    /\ pc = "done"
    /\ CountCalls("attach") = 1 /\ CountCalls("detach") = 1
    /\ \E i, j \in DOMAIN maps : i < j /\ Attempted("read", i) /\ Attempted("read", j)

====
